---- MODULE Spec2Model ----
(***************************************************************************)
(* ITQ small-code generation of add_codes.py: the pipeline driver          *)
(* add_descriptors_smallcodes, the dispatcher async_compute_smallcodes and *)
(* the SmallCodeProcess workers, communicating through the input queue     *)
(* in_q and the bounded output queue out_q.                                *)
(***************************************************************************)
EXTENDS Integers, Sequences, FiniteSets, TLC

\* ---------------------------------------------------------------- bounds
MaxProcs == 2      \* largest worker count (procs) explored
MaxN     == 4      \* largest number of descriptor uuids explored
MaxBatch == 2      \* largest SmallCodeProcess.batch explored
MaxLoad  == 6      \* largest 2 * procs + number of uuids explored together

\* ------------------------------------------------------ transform inputs
\* rotation matrix (D rows, B columns) and mean vector (length D), as the
\* driver loads them; a small integer instance
ITQ_ROTATION == << <<1, 1>>, <<1, -1>> >>
ITQ_MEAN_VEC == <<1, 0>>

\* the vectors an element's vector() may return: one projecting to (0, -2),
\* one projecting to (-1, 1), and one of the wrong dimensionality
VectorDomain == { <<0, 1>>, <<1, -1>>, <<1, 0, 0>> }

\* the terminal packet put on in_q (Python None, the only falsy packet)
None == [id |-> 0, vec |-> <<>>]

\* make_element(uuid): the element of a uuid, carrying its stored vector
make_element(uuid, v) == [id |-> uuid, vec |-> v]

VARIABLES
  procs,        \* number of workers
  batch,        \* SmallCodeProcess.batch
  N,            \* len(descriptor_uuids)
  pc,           \* position of the main process (driver and dispatcher)
  err,          \* the exception in flight or raised, "none" if none
  outcome,      \* how async_compute_smallcodes exited: none/returned/raised
  started,      \* workers on which start() has succeeded
  s,            \* elements sent
  nterm,        \* terminal packets sent
  r,            \* results collected
  sc_d_return,  \* the collected result list
  in_q,         \* input queue contents
  out_q,        \* output queue contents
  in_closed,    \* in_q.close() was called
  out_closed,   \* out_q.close() was called
  fi,           \* workers handled by the finally loop
  wpc,          \* per worker: new/get/put/flush/returned/exited/failed/terminated
  d_elems,      \* per worker: the current batch
  b,            \* per worker: the bit matrix of the batch being emitted
  pi,           \* per worker: index of the next pair to put
  gotNone,      \* per worker: terminal packets received (history)
  taken,        \* per worker: ids of the elements received, in order (history)
  emitted,      \* per worker: ids of the pairs put, in order (history)
  sink          \* the calls made to add_many_descriptors, in order

vars == << procs, batch, N, pc, err, outcome, started, s, nterm, r,
           sc_d_return, in_q, out_q, in_closed, out_closed, fi, wpc,
           d_elems, b, pi, gotNone, taken, emitted, sink >>

mainVars   == << pc, err, outcome, started, s, nterm, r, sc_d_return,
                 in_closed, out_closed, fi, sink >>
workerVars == << wpc, d_elems, b, pi, gotNone, taken, emitted >>
inputVars  == << procs, batch, N >>

Workers == 1..procs

\* ------------------------------------------------------------ quantizer
RECURSIVE DotFrom(_, _, _)
\* sum over k >= from of x[k] * ITQ_ROTATION[k][col]
DotFrom(x, col, from) ==
  IF from > Len(x) THEN 0
  ELSE x[from] * ITQ_ROTATION[from][col] + DotFrom(x, col, from + 1)

\* m - self.m_vec, for one row of m
Centered(v) == [k \in 1..Len(v) |-> v[k] - ITQ_MEAN_VEC[k]]

\* one row of z = np.dot(m - self.m_vec, self.r)
Project(v) == [i \in 1..Len(ITQ_ROTATION[1]) |-> DotFrom(Centered(v), i, 1)]

\* variant: a strict threshold, b[z > 0] = 1
SignBit_strict(z) == IF z > 0 THEN 1 ELSE 0

\* b = zeros; b[z >= 0] = 1, for one component of z
SignBit(z) == IF z >= 0 THEN 1 ELSE 0

\* one row of b
Bits(v) == [i \in 1..Len(ITQ_ROTATION[1]) |-> SignBit(Project(v)[i])]

\* the arithmetic of the batch is defined: every vector has the dimension
\* of the mean vector and of the rotation's rows
ShapeOK(d) == \A j \in 1..Len(d) : Len(d[j].vec) = Len(ITQ_MEAN_VEC)

\* the matrix b of a whole batch
QuantizeBatch(d) == [j \in 1..Len(d) |-> Bits(d[j].vec)]

RECURSIVE PackFrom(_, _, _)
PackFrom(bits, k, c) ==
  IF k > Len(bits) THEN c ELSE PackFrom(bits, k + 1, c * 2 + bits[k])

\* bit_vector_to_int: the bits packed into one integer, first bit most
\* significant
bit_vector_to_int(bits) == PackFrom(bits, 1, 0)

\* ------------------------------------------------------------- workers
\* variant: the element of the first uuid is falsy and ends the loop like
\* the terminal packet
Truthy_firstfalsy(packet) == packet # None /\ packet.id # 1

\* `while packet:`
Truthy(packet) == packet # None

\* variant: the batch is quantized one element late
BatchFull_late(d) == Len(d) > batch

\* `if len(d_elems) >= self.batch:`
BatchFull(d) == Len(d) >= batch

\* variant: only a full batch is quantized after the loop
NeedFlush_fullonly(d) == Len(d) >= batch

\* `if d_elems:` after the loop
NeedFlush(d) == d # <<>>

\* variant: the pairs of a batch are put last to first
ZipAt_reversed(bm, d, i) ==
  << bit_vector_to_int(bm[Len(d) + 1 - i]), d[Len(d) + 1 - i] >>

\* variant: every pair of a batch is built from its first row
ZipAt_first(bm, d, i) == << bit_vector_to_int(bm[1]), d[1] >>

\* variant: the rows of b are paired with the elements in opposite order
ZipAt_crossed(bm, d, i) == << bit_vector_to_int(bm[Len(d) + 1 - i]), d[i] >>

\* the i-th pair of zip(b, d_elems), as put on out_q
ZipAt(bm, d, i) == << bit_vector_to_int(bm[i]), d[i] >>

\* variant: the output queue admits one pair more
OutCapacity_loose == procs * 2 + 1

\* variant: the output queue is as good as unbounded
OutCapacity_unbounded == procs * 2 + N

\* out_q = multiprocessing.Queue(procs*2)
OutCapacity == procs * 2

Alive(w) == wpc[w] \in {"get", "put", "flush", "returned"}

\* the quantization of the batch d by worker w, entering the put loop in
\* state `loop`; the exception of a shape mismatch ends the process
Compute(w, d, loop) ==
  IF ShapeOK(d)
  THEN /\ wpc' = [wpc EXCEPT ![w] = loop]
       /\ b' = [b EXCEPT ![w] = QuantizeBatch(d)]
       /\ pi' = [pi EXCEPT ![w] = 1]
  ELSE /\ wpc' = [wpc EXCEPT ![w] = "failed"]
       /\ UNCHANGED << b, pi >>

\* packet = self.in_q.get(), then the loop body up to the next blocking call
WGet(w) ==
  /\ w \in Workers
  /\ wpc[w] = "get"
  /\ in_q # <<>>
  /\ in_q' = Tail(in_q)
  /\ LET packet == Head(in_q) IN
       IF Truthy(packet)
       THEN LET d == Append(d_elems[w], packet) IN
              /\ d_elems' = [d_elems EXCEPT ![w] = d]
              /\ taken' = [taken EXCEPT ![w] = Append(@, packet.id)]
              /\ UNCHANGED gotNone
              /\ IF BatchFull(d)
                 THEN Compute(w, d, "put")
                 ELSE UNCHANGED << wpc, b, pi >>
       ELSE /\ gotNone' = [gotNone EXCEPT ![w] = @ + 1]
            /\ UNCHANGED << d_elems, taken >>
            /\ IF NeedFlush(d_elems[w])
               THEN Compute(w, d_elems[w], "flush")
               ELSE /\ wpc' = [wpc EXCEPT ![w] = "returned"]
                    /\ UNCHANGED << b, pi >>
  /\ UNCHANGED << emitted, out_q >>
  /\ UNCHANGED mainVars
  /\ UNCHANGED inputVars

\* self.out_q.put((bit_vector_to_int(bits), d)), blocking while out_q is full;
\* after the last pair, d_elems = []
WPut(w) ==
  /\ w \in Workers
  /\ wpc[w] \in {"put", "flush"}
  /\ Len(out_q) < OutCapacity
  /\ out_q' = Append(out_q, ZipAt(b[w], d_elems[w], pi[w]))
  /\ emitted' = [emitted EXCEPT ![w] =
                    Append(@, ZipAt(b[w], d_elems[w], pi[w])[2].id)]
  /\ IF pi[w] < Len(b[w])
     THEN /\ pi' = [pi EXCEPT ![w] = @ + 1]
          /\ UNCHANGED << wpc, d_elems, b >>
     ELSE /\ pi' = [pi EXCEPT ![w] = 0]
          /\ b' = [b EXCEPT ![w] = <<>>]
          /\ d_elems' = [d_elems EXCEPT ![w] = <<>>]
          /\ wpc' = [wpc EXCEPT ![w] = IF wpc[w] = "put" THEN "get"
                                                        ELSE "returned"]
  /\ UNCHANGED << gotNone, taken, in_q >>
  /\ UNCHANGED mainVars
  /\ UNCHANGED inputVars

\* variant: the worker enters its loop again after run() has returned
WExit_rerun(w) ==
  /\ w \in Workers
  /\ wpc[w] = "returned"
  /\ wpc' = [wpc EXCEPT ![w] = "get"]
  /\ UNCHANGED << d_elems, b, pi, gotNone, taken, emitted, in_q, out_q >>
  /\ UNCHANGED mainVars
  /\ UNCHANGED inputVars

\* run() has returned: the process exits
WExit(w) ==
  /\ w \in Workers
  /\ wpc[w] = "returned"
  /\ wpc' = [wpc EXCEPT ![w] = "exited"]
  /\ UNCHANGED << d_elems, b, pi, gotNone, taken, emitted, in_q, out_q >>
  /\ UNCHANGED mainVars
  /\ UNCHANGED inputVars

Worker(w) == WGet(w) \/ WPut(w) \/ WExit(w)

\* ------------------------------------------------------- pipeline driver
\* cPickle.load(f): the descriptor uuids are loaded
LoadUuids ==
  /\ pc = "load_uuids"
  /\ pc' = "load_itq"
  /\ UNCHANGED << err, outcome, started, s, nterm, r, sc_d_return,
                  in_closed, out_closed, fi, sink >>
  /\ UNCHANGED << in_q, out_q >>
  /\ UNCHANGED workerVars
  /\ UNCHANGED inputVars

\* np.load of the rotation and the mean vector, then the call of
\* async_compute_smallcodes up to the creation of the queues and workers
LoadItq ==
  /\ pc = "load_itq"
  /\ pc' = "start"
  /\ UNCHANGED << err, outcome, started, s, nterm, r, sc_d_return,
                  in_closed, out_closed, fi, sink >>
  /\ UNCHANGED << in_q, out_q >>
  /\ UNCHANGED workerVars
  /\ UNCHANGED inputVars

\* a load before the dispatcher raises: the driver has no handler
LoadFail ==
  /\ pc \in {"load_uuids", "load_itq"}
  /\ pc' = "failed"
  /\ err' = "IOError"
  /\ UNCHANGED << outcome, started, s, nterm, r, sc_d_return,
                  in_closed, out_closed, fi, sink >>
  /\ UNCHANGED << in_q, out_q >>
  /\ UNCHANGED workerVars
  /\ UNCHANGED inputVars

\* ----------------------------------------------------------- dispatcher
\* variant: the collector stops one result early
CollectCount_short == s - 1

\* `for i in xrange(s)`: the number of results the collector waits for
CollectCount == s

\* variant: one terminal packet too few
SentinelCount_short == procs - 1

\* variant: one terminal packet too many
SentinelCount_extra == procs + 1

\* `for w in workers: in_q.put(None)`: the number of terminal packets
SentinelCount == procs

\* an exception in the try body: control passes to the finally block
Raise(e) ==
  /\ err' = e
  /\ pc' = "finally"

\* w.start() of the next worker
StartWorker ==
  /\ pc = "start"
  /\ started < procs
  /\ started' = started + 1
  /\ wpc' = [wpc EXCEPT ![started + 1] = "get"]
  /\ pc' = IF started + 1 = procs THEN "feed" ELSE "start"
  /\ UNCHANGED << err, outcome, s, nterm, r, sc_d_return,
                  in_closed, out_closed, fi, sink >>
  /\ UNCHANGED << in_q, out_q >>
  /\ UNCHANGED << d_elems, b, pi, gotNone, taken, emitted >>
  /\ UNCHANGED inputVars

\* w.start() of the next worker raises (the process cannot be created)
StartFail ==
  /\ pc = "start"
  /\ started < procs
  /\ Raise("OSError")
  /\ UNCHANGED << outcome, started, s, nterm, r, sc_d_return,
                  in_closed, out_closed, fi, sink >>
  /\ UNCHANGED << in_q, out_q >>
  /\ UNCHANGED workerVars
  /\ UNCHANGED inputVars

\* variant: the feeder waits for room in out_q before it puts an element
Feed_paced ==
  /\ pc = "feed"
  /\ s < N
  /\ Len(out_q) < procs * 2
  /\ \E v \in VectorDomain : in_q' = Append(in_q, make_element(s + 1, v))
  /\ s' = s + 1
  /\ UNCHANGED << pc, err, outcome, started, nterm, r, sc_d_return,
                  in_closed, out_closed, fi, sink >>
  /\ UNCHANGED out_q
  /\ UNCHANGED workerVars
  /\ UNCHANGED inputVars

\* one round of `for de in descr_elements: in_q.put(de)`: the generator
\* makes the element of the next uuid and the feeder puts it; in_q is
\* unbounded, the put never blocks
Feed ==
  /\ pc = "feed"
  /\ s < N
  /\ \E v \in VectorDomain : in_q' = Append(in_q, make_element(s + 1, v))
  /\ s' = s + 1
  /\ UNCHANGED << pc, err, outcome, started, nterm, r, sc_d_return,
                  in_closed, out_closed, fi, sink >>
  /\ UNCHANGED out_q
  /\ UNCHANGED workerVars
  /\ UNCHANGED inputVars

\* variant: the failure of a fetch is swallowed and the feeder goes on
\* with the next uuid
FetchFail_continue ==
  /\ pc = "feed"
  /\ s < N
  /\ err' = "FetchError"
  /\ s' = s + 1
  /\ UNCHANGED << pc, outcome, started, nterm, r, sc_d_return,
                  in_closed, out_closed, fi, sink >>
  /\ UNCHANGED << in_q, out_q >>
  /\ UNCHANGED workerVars
  /\ UNCHANGED inputVars

\* make_element raises while the generator is advanced
FetchFail ==
  /\ pc = "feed"
  /\ s < N
  /\ Raise("FetchError")
  /\ UNCHANGED << outcome, started, s, nterm, r, sc_d_return,
                  in_closed, out_closed, fi, sink >>
  /\ UNCHANGED << in_q, out_q >>
  /\ UNCHANGED workerVars
  /\ UNCHANGED inputVars

\* one round of `for w in workers: in_q.put(None)`, entered when the
\* generator is exhausted; after the last one, in_q.close()
SendSentinel ==
  /\ pc = "feed"
  /\ s = N
  /\ nterm < SentinelCount
  /\ in_q' = Append(in_q, None)
  /\ nterm' = nterm + 1
  /\ IF nterm + 1 = SentinelCount
     THEN /\ in_closed' = TRUE
          /\ pc' = "collect"
     ELSE UNCHANGED << in_closed, pc >>
  /\ UNCHANGED << err, outcome, started, s, r, sc_d_return,
                  out_closed, fi, sink >>
  /\ UNCHANGED out_q
  /\ UNCHANGED workerVars
  /\ UNCHANGED inputVars

\* one round of the collection loop: sc, d = out_q.get(), blocking while
\* out_q is empty
Collect ==
  /\ pc = "collect"
  /\ r < CollectCount
  /\ out_q # <<>>
  /\ sc_d_return' = Append(sc_d_return, Head(out_q))
  /\ out_q' = Tail(out_q)
  /\ r' = r + 1
  /\ UNCHANGED << pc, err, outcome, started, s, nterm,
                  in_closed, out_closed, fi, sink >>
  /\ UNCHANGED in_q
  /\ UNCHANGED workerVars
  /\ UNCHANGED inputVars

\* the collection loop is over: out_q.close(); return sc_d_return, which
\* first runs the finally block
CollectDone ==
  /\ pc = "collect"
  /\ r >= CollectCount
  /\ out_closed' = TRUE
  /\ pc' = "finally"
  /\ UNCHANGED << err, outcome, started, s, nterm, r, sc_d_return,
                  in_closed, fi, sink >>
  /\ UNCHANGED << in_q, out_q >>
  /\ UNCHANGED workerVars
  /\ UNCHANGED inputVars

\* an asynchronous KeyboardInterrupt reaches the main process inside the
\* try body
Cancel ==
  /\ pc \in {"start", "feed", "collect"}
  /\ Raise("KeyboardInterrupt")
  /\ UNCHANGED << outcome, started, s, nterm, r, sc_d_return,
                  in_closed, out_closed, fi, sink >>
  /\ UNCHANGED << in_q, out_q >>
  /\ UNCHANGED workerVars
  /\ UNCHANGED inputVars

\* one round of the finally loop on worker fi + 1:
\*   if w.is_alive(): w.terminate()
\*   w.join()
\* join() of a process that was never started raises AssertionError, which
\* leaves the finally block (and the call) at once.  A worker step between
\* is_alive() and terminate() commutes with is_alive(), so the round is
\* taken as one step.
CleanupWorker ==
  /\ pc = "finally"
  /\ fi < procs
  /\ IF wpc[fi + 1] = "new"
     THEN /\ err' = "AssertionError"
          /\ outcome' = "raised"
          /\ pc' = "failed"
          /\ UNCHANGED << wpc, fi >>
     ELSE /\ wpc' = [wpc EXCEPT ![fi + 1] =
                        IF Alive(fi + 1) THEN "terminated" ELSE @]
          /\ fi' = fi + 1
          /\ pc' = IF fi + 1 = procs THEN "closeq" ELSE "finally"
          /\ UNCHANGED << err, outcome >>
  /\ UNCHANGED << started, s, nterm, r, sc_d_return,
                  in_closed, out_closed, sink >>
  /\ UNCHANGED << in_q, out_q >>
  /\ UNCHANGED << d_elems, b, pi, gotNone, taken, emitted >>
  /\ UNCHANGED inputVars

\* variant: the driver goes on after the call whether it returned or raised
CloseQueues_resume ==
  /\ pc = "closeq"
  /\ in_closed' = TRUE
  /\ out_closed' = TRUE
  /\ outcome' = IF err = "none" THEN "returned" ELSE "raised"
  /\ pc' = "load_algo"
  /\ UNCHANGED << err, started, s, nterm, r, sc_d_return, fi, sink >>
  /\ UNCHANGED << in_q, out_q >>
  /\ UNCHANGED workerVars
  /\ UNCHANGED inputVars

\* `for q in (in_q, out_q): q.close(); q.join_thread()`, then the call
\* exits: with the return value if the try body returned, with the
\* exception in flight otherwise
CloseQueues ==
  /\ pc = "closeq"
  /\ in_closed' = TRUE
  /\ out_closed' = TRUE
  /\ outcome' = IF err = "none" THEN "returned" ELSE "raised"
  /\ pc' = IF err = "none" THEN "load_algo" ELSE "failed"
  /\ UNCHANGED << err, started, s, nterm, r, sc_d_return, fi, sink >>
  /\ UNCHANGED << in_q, out_q >>
  /\ UNCHANGED workerVars
  /\ UNCHANGED inputVars

\* ------------------------------------------------ pipeline driver, end
\* itq_index = load_algo()
LoadAlgo ==
  /\ pc = "load_algo"
  /\ pc' = "add"
  /\ UNCHANGED << err, outcome, started, s, nterm, r, sc_d_return,
                  in_closed, out_closed, fi, sink >>
  /\ UNCHANGED << in_q, out_q >>
  /\ UNCHANGED workerVars
  /\ UNCHANGED inputVars

\* load_algo() raises
LoadAlgoFail ==
  /\ pc = "load_algo"
  /\ pc' = "failed"
  /\ err' = "IOError"
  /\ UNCHANGED << outcome, started, s, nterm, r, sc_d_return,
                  in_closed, out_closed, fi, sink >>
  /\ UNCHANGED << in_q, out_q >>
  /\ UNCHANGED workerVars
  /\ UNCHANGED inputVars

\* itq_index._code_index.add_many_descriptors(sc_d_pairs) returns
AddMany ==
  /\ pc = "add"
  /\ sink' = Append(sink, sc_d_return)
  /\ pc' = "done"
  /\ UNCHANGED << err, outcome, started, s, nterm, r, sc_d_return,
                  in_closed, out_closed, fi >>
  /\ UNCHANGED << in_q, out_q >>
  /\ UNCHANGED workerVars
  /\ UNCHANGED inputVars

\* add_many_descriptors(sc_d_pairs) is called and raises
SinkFail ==
  /\ pc = "add"
  /\ sink' = Append(sink, sc_d_return)
  /\ pc' = "failed"
  /\ err' = "SinkError"
  /\ UNCHANGED << outcome, started, s, nterm, r, sc_d_return,
                  in_closed, out_closed, fi >>
  /\ UNCHANGED << in_q, out_q >>
  /\ UNCHANGED workerVars
  /\ UNCHANGED inputVars

\* -------------------------------------------------------- specification
Init ==
  /\ procs \in 1..MaxProcs
  /\ batch \in 1..MaxBatch
  /\ N \in 0..MaxN
  /\ procs * 2 + N <= MaxLoad
  /\ pc = "load_uuids"
  /\ err = "none"
  /\ outcome = "none"
  /\ started = 0
  /\ s = 0
  /\ nterm = 0
  /\ r = 0
  /\ sc_d_return = <<>>
  /\ in_q = <<>>
  /\ out_q = <<>>
  /\ in_closed = FALSE
  /\ out_closed = FALSE
  /\ fi = 0
  /\ wpc = [w \in 1..procs |-> "new"]
  /\ d_elems = [w \in 1..procs |-> <<>>]
  /\ b = [w \in 1..procs |-> <<>>]
  /\ pi = [w \in 1..procs |-> 0]
  /\ gotNone = [w \in 1..procs |-> 0]
  /\ taken = [w \in 1..procs |-> <<>>]
  /\ emitted = [w \in 1..procs |-> <<>>]
  /\ sink = <<>>

\* the steps of the main process that its code takes by itself
Main ==
  \/ LoadUuids \/ LoadItq
  \/ StartWorker \/ Feed \/ SendSentinel \/ Collect \/ CollectDone
  \/ CleanupWorker \/ CloseQueues
  \/ LoadAlgo \/ AddMany

\* the failures of collaborators and the cancellation, which the
\* environment decides
Fault ==
  \/ LoadFail \/ StartFail \/ FetchFail \/ Cancel \/ LoadAlgoFail \/ SinkFail

Next == Main \/ Fault \/ \E w \in 1..MaxProcs : Worker(w)

Spec == Init /\ [][Next]_vars

\* the operating system schedules every process that can take a step
FairSpec ==
  /\ Spec
  /\ WF_vars(Main)
  /\ \A w \in 1..MaxProcs : WF_vars(Worker(w))

\* ---------------------------------------------------- auxiliary notions
\* the element identities of a sequence of (code, element) pairs
PairIds(pairs) == [i \in 1..Len(pairs) |-> pairs[i][2].id]

Range(f) == {f[i] : i \in DOMAIN f}

NoDuplicates(f) == \A i, j \in DOMAIN f : i # j => f[i] # f[j]

IsPrefix(p, q) == Len(p) <= Len(q) /\ p = SubSeq(q, 1, Len(p))

RECURSIVE SumOver(_, _)
\* the sum of f over the set of workers S
SumOver(f, S) ==
  IF S = {} THEN 0
  ELSE LET w == CHOOSE x \in S : TRUE IN f[w] + SumOver(f, S \ {w})

NoneCount(q) == Cardinality({i \in DOMAIN q : q[i] = None})

WorkerFailed == \E w \in Workers : wpc[w] = "failed"

\* a failure or a cancellation has happened
Faulted == err # "none" \/ WorkerFailed

\* --------------------------------------------------------------- claims
\* C1: when async_compute_smallcodes returns normally it returns exactly
\* as many pairs as elements were yielded, and every sent identity is in
\* exactly one returned pair.
C1_ExactlyTheSentIdentities ==
  outcome = "returned" =>
    /\ s = N
    /\ Len(sc_d_return) = N
    /\ NoDuplicates(PairIds(sc_d_return))
    /\ Range(PairIds(sc_d_return)) = 1..N

\* a normal return of a run in which two workers each emitted a pair
C1_Witness ==
  /\ outcome = "returned"
  /\ procs = 2
  /\ N >= 2
  /\ \A w \in Workers : emitted[w] # <<>>

\* C2: with out_q bounded to 2 x procs and the collector reading only after
\* all elements and terminal packets are sent, every fairly scheduled run
\* without failure or cancellation returns with all N results.
C2_ReturnsAllUnderBackpressure ==
  <>((outcome = "returned" /\ Len(sc_d_return) = N) \/ Faulted)

\* the collector has not read anything yet, out_q is full and a worker is
\* blocked in put
C2_Witness ==
  /\ pc = "collect"
  /\ r = 0
  /\ ~Faulted
  /\ Len(out_q) = OutCapacity
  /\ \E w \in Workers : wpc[w] \in {"put", "flush"}

\* C3: once a worker has failed, the call eventually fails with every
\* worker stopped, and it never returns a result.
C3_WorkerFailureSurfaces ==
  /\ WorkerFailed ~> (outcome = "raised" /\ \A w \in Workers : ~Alive(w))
  /\ [](WorkerFailed => outcome # "returned")

\* C4 (as amended): exactly procs terminal packets are sent, all behind
\* every element; a worker receives at most one; every packet sent is
\* still queued or was received by one worker; and without worker failure
\* a worker whose run() returned has received one.
C4_SentinelProtocol ==
  /\ nterm <= procs
  /\ nterm > 0 => s = N
  /\ (pc = "collect" \/ outcome = "returned") => nterm = procs
  /\ \A i, j \in DOMAIN in_q : (i < j /\ in_q[i] = None) => in_q[j] = None
  /\ \A w \in Workers : gotNone[w] <= 1
  /\ nterm = NoneCount(in_q) + SumOver(gotNone, Workers)
  /\ ~WorkerFailed =>
       \A w \in Workers : wpc[w] \in {"returned", "exited"} => gotNone[w] = 1

\* a normal return after which both workers have ended by their packet
C4_Witness ==
  /\ outcome = "returned"
  /\ procs = 2
  /\ N >= 1
  /\ \A w \in Workers : wpc[w] = "exited" /\ gotNone[w] = 1

\* C4 (as claimed): in a run without worker failure that returned, every
\* worker has received a terminal packet and none was force-terminated.
C4_EveryWorkerEndsBySentinel ==
  (outcome = "returned" /\ ~WorkerFailed) =>
    \A w \in Workers : gotNone[w] = 1 /\ wpc[w] # "terminated"

\* C5: whenever the call has exited, no worker is alive and both queues
\* are closed.
C5_CleanupUnconditional ==
  outcome # "none" =>
    /\ \A w \in Workers : ~Alive(w)
    /\ in_closed
    /\ out_closed

\* C6: add_many_descriptors is called at most once, only after the
\* dispatcher returned, with exactly the N pairs; a run that fails before
\* the call never makes it.
C6_SinkAllOrNothing ==
  /\ Len(sink) <= 1
  /\ sink # <<>> =>
       /\ outcome = "returned"
       /\ sink[1] = sc_d_return
       /\ Len(sink[1]) = N
       /\ Range(PairIds(sink[1])) = 1..N
       /\ pc \in {"done", "failed"}
  /\ pc = "done" => (Len(sink) = 1 /\ err = "none")
  /\ (pc = "failed" /\ err # "SinkError") => sink = <<>>

\* the run completed after delivering the pairs of two elements
C6_Witness ==
  /\ pc = "done"
  /\ N >= 2
  /\ Len(sink) = 1

\* C7: from the failure of a fetch on, nothing more is sent (no element,
\* no terminal packet), nothing is collected or returned, the exception
\* stays the same, and when the call has exited no worker is alive.
C7_FetchFailurePropagates ==
  [][ err' = "FetchError" =>
        /\ nterm' = 0
        /\ r' = 0
        /\ sc_d_return' = <<>>
        /\ outcome' # "returned"
        /\ sink' = <<>>
        /\ NoneCount(in_q') = 0
        /\ err = "FetchError" => (s' = s /\ Len(in_q') <= Len(in_q))
        /\ outcome' = "raised" =>
             \A w \in Workers : wpc'[w] \in {"exited", "failed", "terminated"}
    ]_vars

\* the call has raised the fetch failure after an element was sent, and
\* the cleanup has terminated a worker
C7_Witness ==
  /\ err = "FetchError"
  /\ outcome = "raised"
  /\ s >= 1
  /\ \E w \in Workers : wpc[w] = "terminated"

\* C8: a worker that receives the terminal packet with a partial batch
\* emits one pair for each element of it before its run() returns.
C8_FlushEmitsPartialBatch ==
  \A w \in Workers :
    /\ wpc[w] = "flush" =>
         /\ Len(d_elems[w]) \in 1..(batch - 1)
         /\ Len(b[w]) = Len(d_elems[w])
         /\ Len(emitted[w]) + (Len(d_elems[w]) - pi[w] + 1) = Len(taken[w])
    /\ wpc[w] \in {"returned", "exited"} =>
         /\ d_elems[w] = <<>>
         /\ Len(emitted[w]) = Len(taken[w])
         /\ Range(emitted[w]) = Range(taken[w])

\* a worker has ended after flushing a partial batch
C8_Witness ==
  \E w \in Workers :
    /\ wpc[w] \in {"returned", "exited"}
    /\ Len(taken[w]) % batch # 0
    /\ Len(emitted[w]) = Len(taken[w])

\* C9: the pairs a worker has put are, in order, those of the first
\* elements it received.
C9_WorkerOutputOrder ==
  \A w \in Workers : IsPrefix(emitted[w], taken[w])

\* a worker has emitted a full batch of two and then a flushed third
C9_Witness ==
  \E w \in Workers :
    /\ batch = 2
    /\ Len(emitted[w]) = 3
    /\ wpc[w] = "returned"

\* C10: in the batch being emitted, on either path, bit i of the row of
\* vector v is 1 exactly when the i-th component of (v - mean) . rotation
\* is >= 0.
C10_InclusiveSignRule ==
  \A w \in Workers :
    wpc[w] \in {"put", "flush"} =>
      \A j \in 1..Len(d_elems[w]) :
        \A i \in 1..Len(ITQ_ROTATION[1]) :
          /\ b[w][j][i] \in {0, 1}
          /\ b[w][j][i] = 1 <=> Project(d_elems[w][j].vec)[i] >= 0

\* a flushed batch with an exactly zero component (bit 1) and a negative
\* component (bit 0)
C10_Witness ==
  \E w \in Workers :
    /\ wpc[w] = "flush"
    /\ \E j \in 1..Len(d_elems[w]) : \E i \in 1..Len(ITQ_ROTATION[1]) :
         Project(d_elems[w][j].vec)[i] = 0 /\ b[w][j][i] = 1
    /\ \E j \in 1..Len(d_elems[w]) : \E i \in 1..Len(ITQ_ROTATION[1]) :
         Project(d_elems[w][j].vec)[i] < 0 /\ b[w][j][i] = 0

\* the part of worker w's batch whose pairs are not yet put
Pending(w) ==
  IF wpc[w] \in {"put", "flush"}
  THEN SubSeq(d_elems[w], pi[w], Len(d_elems[w]))
  ELSE d_elems[w]

\* occurrences of identity k in a sequence of elements, of pairs, of ids
ElemOcc(q, k) == Cardinality({i \in DOMAIN q : q[i].id = k})
PairOcc(q, k) == Cardinality({i \in DOMAIN q : q[i][2].id = k})
IdOcc(q, k)   == Cardinality({i \in DOMAIN q : q[i] = k})

\* no worker has failed or was force-terminated
NoWorkerLost == \A w \in Workers : wpc[w] \notin {"failed", "terminated"}

\* C11 (as amended): without worker failure or forced termination, each
\* sent element is in exactly one of: in_q, the not yet emitted part of
\* one worker's batch, out_q, the result list; it was taken by at most one
\* worker, once, and has at most one pair, which exists exactly when it is
\* no longer queued or pending.
C11_Conservation ==
  NoWorkerLost =>
    \A k \in 1..s :
      /\ ElemOcc(in_q, k)
           + SumOver([w \in Workers |-> ElemOcc(Pending(w), k)], Workers)
           + PairOcc(out_q, k) + PairOcc(sc_d_return, k) = 1
      /\ SumOver([w \in Workers |-> IdOcc(taken[w], k)], Workers)
           = 1 - ElemOcc(in_q, k)
      /\ SumOver([w \in Workers |-> IdOcc(emitted[w], k)], Workers)
           = PairOcc(out_q, k) + PairOcc(sc_d_return, k)

\* elements are at once queued, pending in a worker, in out_q and collected
C11_Witness ==
  /\ NoWorkerLost
  /\ \E i \in DOMAIN in_q : in_q[i] # None
  /\ \E w \in Workers : Pending(w) # <<>>
  /\ out_q # <<>>
  /\ sc_d_return # <<>>

\* C11 (as claimed): the same with the whole current batch d_elems as the
\* worker's place.
C11_OnePlaceWithWholeBatch ==
  NoWorkerLost =>
    \A k \in 1..s :
      ElemOcc(in_q, k)
        + SumOver([w \in Workers |-> ElemOcc(d_elems[w], k)], Workers)
        + PairOcc(out_q, k) + PairOcc(sc_d_return, k) = 1

\* C12: out_q never holds more than 2 x procs pairs; a worker in its put
\* loop does not advance in a step taken while out_q is full; and out_q
\* changes only by one pair appended or by its head moved to the result
\* list.
C12_OutputBound ==
  [][ /\ Len(out_q') <= 2 * procs
      /\ \A w \in Workers :
           (wpc[w] \in {"put", "flush"} /\ Len(out_q) = 2 * procs) =>
             /\ wpc'[w] \in {wpc[w], "terminated"}
             /\ emitted'[w] = emitted[w]
      /\ out_q' # out_q =>
           \/ \E x \in Range(out_q') : out_q' = Append(out_q, x)
           \/ /\ out_q # <<>>
              /\ out_q' = Tail(out_q)
              /\ sc_d_return' = Append(sc_d_return, Head(out_q))
    ]_vars

\* the collector has removed a pair and a blocked worker has filled out_q
\* again
C12_Witness ==
  /\ pc = "collect"
  /\ r >= 1
  /\ Len(out_q) = 2 * procs
  /\ \E w \in Workers : wpc[w] \in {"put", "flush"}

\* elements taken from in_q so far
TakenCount == SumOver([w \in Workers |-> Len(taken[w])], Workers)

\* C13 (as amended): what backpressure bounds is the number of elements
\* taken from in_q and not yet collected (at most procs x batch in the
\* workers plus 2 x procs in out_q); the feeder is not throttled: nothing
\* is collected before all N elements are sent.
C13_TakenNotCollectedBounded ==
  /\ TakenCount - r <= procs * batch + 2 * procs
  /\ s - r = (Len(in_q) - NoneCount(in_q)) + (TakenCount - r)
  /\ r > 0 => s = N
  /\ pc = "collect" => s = N

\* collection starts with all N elements outstanding, the workers and
\* out_q holding all they can and the rest waiting in in_q
C13_Witness ==
  /\ pc = "collect"
  /\ r = 0
  /\ s = N
  /\ TakenCount = procs * batch + 2 * procs
  /\ \E i \in DOMAIN in_q : in_q[i] # None

\* C13 (as claimed): the elements sent and not yet collected never exceed
\* what the workers' batches and out_q can hold.
C13_SentNotCollectedBounded ==
  s - r <= procs * batch + 2 * procs

\* C14: in every fairly scheduled run in which the main process meets no
\* failure or cancellation, the feeder gets through all N elements and all
\* procs terminal packets before anything is collected, whatever the
\* workers and out_q do.
C14_FeederNeverBlocksOnOutput ==
  <>((pc = "collect" /\ r = 0 /\ s = N /\ nterm = procs) \/ err # "none")

\* the feeder is still feeding while out_q is full and every worker is
\* blocked in put
C14_Witness ==
  /\ pc = "feed"
  /\ err = "none"
  /\ s < N
  /\ Len(out_q) = 2 * procs
  /\ \A w \in Workers : wpc[w] \in {"put", "flush"}

\* C15: a worker whose run() has returned takes no further step on the
\* queues: it receives nothing, puts nothing, and only exits or is
\* terminated; a worker that has received the terminal packet receives
\* nothing more.
C15_TerminatedIsAbsorbing ==
  [][ \A w \in Workers :
        /\ wpc[w] \in {"returned", "exited"} =>
             /\ wpc'[w] \in {wpc[w], "exited", "terminated"}
             /\ wpc[w] = "exited" => wpc'[w] = "exited"
             /\ taken'[w] = taken[w]
             /\ emitted'[w] = emitted[w]
             /\ gotNone'[w] = gotNone[w]
             /\ d_elems'[w] = <<>>
        /\ gotNone[w] >= 1 =>
             /\ gotNone'[w] = 1
             /\ taken'[w] = taken[w]
    ]_vars

\* a worker has ended by its terminal packet while in_q still holds one
\* for another worker
C15_Witness ==
  \E w \in Workers :
    /\ wpc[w] = "exited"
    /\ gotNone[w] = 1
    /\ taken[w] # <<>>
    /\ in_q # <<>>

\* C16: once the finally block is entered, the call eventually exits with
\* no worker alive and both queues closed.
C16_CleanupCompletes ==
  (pc = "finally") ~>
    (/\ outcome # "none"
     /\ \A w \in Workers : ~Alive(w)
     /\ in_closed
     /\ out_closed)

\* C17 (as amended): a batch never holds more than `batch` elements; a
\* worker about to read holds fewer than `batch`, and none whose pair it
\* has put; the batch is empty again once all pairs of a quantized batch
\* are put, and holds the whole batch while they are being put.
C17_BatchBound ==
  \A w \in Workers :
    /\ Len(d_elems[w]) <= batch
    /\ wpc[w] = "get" =>
         /\ Len(d_elems[w]) < batch
         /\ Len(emitted[w]) + Len(d_elems[w]) = Len(taken[w])
    /\ wpc[w] = "put" => Len(d_elems[w]) = batch
    /\ wpc[w] \in {"returned", "exited"} => d_elems[w] = <<>>

\* a worker is about to read with an empty batch after emitting a full one
C17_Witness ==
  \E w \in Workers :
    /\ batch = 2
    /\ wpc[w] = "get"
    /\ d_elems[w] = <<>>
    /\ Len(emitted[w]) = 2

\* C17 (as claimed): as above, with the batch empty in the state that
\* follows the quantization.
C17_EmptyRightAfterQuantization ==
  \A w \in Workers :
    /\ Len(d_elems[w]) <= batch
    /\ wpc[w] = "get" => Len(d_elems[w]) < batch
    /\ wpc[w] \in {"put", "flush"} => d_elems[w] = <<>>

\* C18: in in_q no element is behind a terminal packet, and once any
\* worker has received a terminal packet in_q holds no element.
C18_NoElementBehindSentinel ==
  /\ \A i \in DOMAIN in_q : in_q[i] = None => \A j \in i..Len(in_q) : in_q[j] = None
  /\ (\E w \in Workers : gotNone[w] > 0) =>
       \A i \in DOMAIN in_q : in_q[i] = None

\* a worker that processed elements has received its terminal packet while
\* the packet of the other worker is still queued
C18_Witness ==
  /\ procs = 2
  /\ \E w \in Workers : gotNone[w] = 1 /\ taken[w] # <<>>
  /\ in_q = << None >>

\* the code of a vector taken by itself
OwnCode(v) ==
  bit_vector_to_int([i \in 1..Len(ITQ_ROTATION[1]) |->
                       IF Project(v)[i] >= 0 THEN 1 ELSE 0])

\* C19: the code of every pair on out_q, in the result list or handed to
\* the sink is the code of the pair's own element vector; the returned
\* pairs are those of the elements 1..N, whatever procs, batch and the
\* interleaving were.
C19_CodeOfOwnVector ==
  /\ \A i \in DOMAIN out_q : out_q[i][1] = OwnCode(out_q[i][2].vec)
  /\ \A i \in DOMAIN sc_d_return :
       sc_d_return[i][1] = OwnCode(sc_d_return[i][2].vec)
  /\ outcome = "returned" =>
       /\ Range(PairIds(sc_d_return)) = 1..N
       /\ Range(sc_d_return) =
            {<< OwnCode(p[2].vec), p[2] >> : p \in Range(sc_d_return)}

\* a returned run in which one worker quantized two vectors with different
\* codes in one batch
C19_Witness ==
  /\ outcome = "returned"
  /\ batch = 2
  /\ \E w \in Workers : Len(taken[w]) >= 2
  /\ \E i, j \in DOMAIN sc_d_return : sc_d_return[i][1] # sc_d_return[j][1]

====
